---- MODULE Spec2Model ----
(***************************************************************************)
(* Appointment lifecycle and scheduling subsystem of the salon ERP         *)
(* backend: scheduleAppointments, updateAppointmentService,                *)
(* deleteAppointment, the status reconciliation cron and the id trackers.  *)
(* Instants are milliseconds since the start of day 0 (UTC).               *)
(***************************************************************************)
EXTENDS Integers, Sequences, FiniteSets, TLC

VARIABLES now, appointments, payments, notifications, aptTracker, txnTracker,
          lastCall, inflight

vars == <<now, appointments, payments, notifications, aptTracker, txnTracker,
          lastCall, inflight>>

(***************************************************************************)
(* Bounds of the model.                                                    *)
(***************************************************************************)
\* stored appointments, in the lifecycle specification
MaxAppointments == 1
\* stored notifications, in the lifecycle specification
MaxNotifications == 3
\* appointment codes drawn over all companies, in the scheduling specifications
MaxAptId == 3
\* schedule invocations in flight at once
MaxInflight == 2

(***************************************************************************)
(* Program constants.                                                      *)
(***************************************************************************)
MsPerMinute == 60 * 1000
MsPerDay == 24 * 60 * MsPerMinute
TWO_HOURS_IN_MS == 2 * 60 * 60 * 1000
\* UTC offset of the zone "Asia/Kolkata" (+05:30), in minutes
IstOffsetMinutes == 330
IstOffsetMs == IstOffsetMinutes * MsPerMinute
APT_PAD == 3
TXN_PAD == 4

UPCOMING == "Upcoming"
ONGOING == "Ongoing"
COMPLETED == "Completed"
CANCELLED == "Cancelled"
APPOINTMENT_STATUS == {UPCOMING, ONGOING, COMPLETED, CANCELLED}

\* enum of Appointment.status and of Payment.status in the schemas
PAYMENT_STATUS_ENUM == {"pending", "un-paid", "paid", "failed"}
\* values the request validator admits for paidStatus
PaidStatusInputs == {"paid", "un-paid", "processing"}

\* the time value of an invalid Date
NaN == 0 - 2147483647
\* an optional request field is << >> when absent and <<value>> when present
Absent == << >>
Present(field) == field # Absent

(***************************************************************************)
(* The collections the core only reads: companies, employees, clients and  *)
(* services.                                                               *)
(***************************************************************************)
Companies == {"A", "B"}

Employees == [e1 |-> [companyId |-> "A"], e2 |-> [companyId |-> "B"]]

Clients == { [_id |-> "clA", clientId |-> <<"C","L","0","0","1">>, companyId |-> "A"],
             [_id |-> "clB", clientId |-> <<"C","L","0","0","2">>, companyId |-> "B"] }

Services ==
  [ sv30   |-> [duration |-> <<"3","0"," ","m","i","n","s">>, price |-> 500],
    svFree |-> [duration |-> <<"1"," ","H","o","u","r">>, price |-> 0],
    svZero |-> [duration |-> <<"0"," ","m","i","n">>, price |-> 100],
    svSoon |-> [duration |-> <<"s","o","o","n">>, price |-> 100],
    svM    |-> [duration |-> <<"5"," ","m">>, price |-> 100],
    svHuge |-> [duration |->
                  <<"9","9","9","9","9","9","9","9","9","9","9","9","9","m","i","n">>,
                price |-> 100] ]

(***************************************************************************)
(* Duration Resolver: parseDurationToMinutes.  A duration string is a      *)
(* sequence of characters; the result is a rational number of minutes      *)
(* num/den, or the error thrown.                                           *)
(***************************************************************************)
Digit == [c \in {"0","1","2","3","4","5","6","7","8","9"} |->
            CASE c = "0" -> 0 [] c = "1" -> 1 [] c = "2" -> 2 [] c = "3" -> 3
              [] c = "4" -> 4 [] c = "5" -> 5 [] c = "6" -> 6 [] c = "7" -> 7
              [] c = "8" -> 8 [] c = "9" -> 9]

IsDigit(c) == c \in DOMAIN Digit

IsSpace(c) == c \in {" ", "\t"}

\* String.prototype.toLowerCase on one character
ToLower(c) ==
  CASE c = "M" -> "m" [] c = "I" -> "i" [] c = "N" -> "n" [] c = "U" -> "u"
    [] c = "T" -> "t" [] c = "E" -> "e" [] c = "S" -> "s" [] c = "H" -> "h"
    [] c = "O" -> "o" [] c = "R" -> "r" [] c = "D" -> "d" [] c = "A" -> "a"
    [] c = "Y" -> "y" [] c = "C" -> "c" [] c = "L" -> "l"
    [] OTHER -> c

LowerCase(s) == [i \in 1..Len(s) |-> ToLower(s[i])]

\* the number of characters of s, from position i on, that satisfy the class
RECURSIVE RunLength(_, _, _)
RunLength(s, i, digits) ==
  IF i > Len(s) THEN 0
  ELSE IF (digits /\ IsDigit(s[i])) \/ (~digits /\ IsSpace(s[i]))
       THEN 1 + RunLength(s, i + 1, digits)
       ELSE 0

\* the alternatives of the unit group of the pattern
UnitTokens ==
  { <<"m","i","n","u","t","e","s">>, <<"m","i","n","u","t","e">>,
    <<"m","i","n","s">>, <<"m","i","n">>,
    <<"h","o","u","r","s">>, <<"h","o","u","r">>, <<"h">>, <<"m">> }

StartsWith(s, prefix) ==
  /\ Len(prefix) <= Len(s)
  /\ SubSeq(s, 1, Len(prefix)) = prefix

\* /^(\d+(?:\.\d+)?)\s*(minutes?|mins?|hours?|hour|h|m)$/i : the match, as
\* the integer digits, the fraction digits and the unit, or matched = FALSE
DurationMatch(s) ==
  LET n1 == RunLength(s, 1, TRUE)
      hasDot == n1 + 1 <= Len(s) /\ s[n1 + 1] = "."
      n2 == IF hasDot THEN RunLength(s, n1 + 2, TRUE) ELSE 0
      numEnd == IF n2 > 0 THEN n1 + 1 + n2 ELSE n1
      ws == RunLength(s, numEnd + 1, FALSE)
      unit == SubSeq(s, numEnd + ws + 1, Len(s))
  IN  [ matched |-> n1 > 0 /\ LowerCase(unit) \in UnitTokens,
        int |-> SubSeq(s, 1, n1),
        frac |-> IF n2 > 0 THEN SubSeq(s, n1 + 2, n1 + 1 + n2) ELSE << >>,
        unit |-> unit ]

RECURSIVE DigitsValue(_)
DigitsValue(d) ==
  IF Len(d) = 0 THEN 0
  ELSE 10 * DigitsValue(SubSeq(d, 1, Len(d) - 1)) + Digit[d[Len(d)]]

RECURSIVE Pow10(_)
Pow10(k) == IF k = 0 THEN 1 ELSE 10 * Pow10(k - 1)

\* a literal with this many integer digits is at least 10^12 minutes, beyond
\* the range of Date (8.64 * 10^15 ms) in either unit
DateRangeDigits == 12 + 1

\* parseFloat(match[1]) as the rational num/den; huge marks a value beyond
\* the range of Date
ParseFloat(int, frac) ==
  IF Len(int) >= DateRangeDigits
  THEN [huge |-> TRUE, num |-> 0, den |-> 1]
  ELSE [huge |-> FALSE,
        num |-> DigitsValue(int) * Pow10(Len(frac)) + DigitsValue(frac),
        den |-> Pow10(Len(frac))]

\* the branches of parseDurationToMinutes on the value and the unit of a match
DurationOf(value, unit) ==
  IF StartsWith(unit, <<"m","i","n">>)
  THEN [error |-> "none", huge |-> value.huge, num |-> value.num, den |-> value.den]
  ELSE IF StartsWith(unit, <<"h","o","u","r">>) \/ StartsWith(unit, <<"h">>)
  THEN [error |-> "none", huge |-> value.huge, num |-> value.num * 60, den |-> value.den]
  ELSE [error |-> "UnsupportedDurationUnit", huge |-> FALSE, num |-> 0, den |-> 1]

\* parseDurationToMinutes once the pattern has been applied
DurationOfMatch(match) ==
  IF ~match.matched
  THEN [error |-> "InvalidDurationFormat", huge |-> FALSE, num |-> 0, den |-> 1]
  ELSE DurationOf(ParseFloat(match.int, match.frac), LowerCase(match.unit))

parseDurationToMinutes(duration) == DurationOfMatch(DurationMatch(duration))

(***************************************************************************)
(* Time Normalizer.  A date string "YYYY-MM-DD" is its day number (day 0   *)
(* is 1970-01-01, a negative day a date that does not parse); a time of    *)
(* day is the sequence of its characters.  A combined string is the record *)
(* of its date, its separator ("T" or " "), its time of day and its zone   *)
(* designator, if any, as minutes east of UTC; the combined strings of the *)
(* model are ISO 8601 strings.                                             *)
(***************************************************************************)
ValidWallClock(day, minute) == day >= 0 /\ minute \in 0..(24 * 60 - 1)

\* the position of the first character of s at or after i that is a digit
\* (or, for digit = FALSE, a colon); Len(s) + 1 when there is none
RECURSIVE IndexFrom(_, _, _)
IndexFrom(s, i, digit) ==
  IF i > Len(s) THEN Len(s) + 1
  ELSE IF (digit /\ IsDigit(s[i])) \/ (~digit /\ s[i] = ":") THEN i
  ELSE IndexFrom(s, i + 1, digit)

\* a token \d\d? found from position i on: its value (0 when there is no
\* digit left) and the position after it
OneOrTwoDigits(s, i) ==
  LET at == IndexFrom(s, i, TRUE)
      n == IF RunLength(s, at, TRUE) >= 2 THEN 2 ELSE RunLength(s, at, TRUE)
  IN  [ value |-> DigitsValue(SubSeq(s, at, at + n - 1)), next |-> at + n ]

\* the overflow check of moment on the parsed fields
ClockFields(hour, minute, second) ==
  [ valid |-> \/ hour < 24 /\ minute < 60 /\ second < 60
              \/ hour = 24 /\ minute = 0 /\ second = 0,
    minute |-> hour * 60 + minute,
    second |-> second ]

\* the minute token of "HH:mm", read after the literal ":" when there is one
MinuteToken(time, from) ==
  LET colon == IndexFrom(time, from, FALSE)
  IN  OneOrTwoDigits(time, IF colon <= Len(time) THEN colon + 1 ELSE from)

\* the tokens HH, ":" and mm of the format "YYYY-MM-DD HH:mm" applied to a
\* time of day; the parse is not strict, so what follows mm is dropped
FormatClock(time) ==
  LET Fields(hour) ==
        ClockFields(hour.value, MinuteToken(time, hour.next).value, 0)
  IN  Fields(OneOrTwoDigits(time, 1))

\* the time of day of an ISO 8601 string: HH, HH:mm or HH:mm:ss
IsoShape(time) ==
  /\ Len(time) \in {2, 5, 8}
  /\ \A i \in 1..Len(time) : IF i \in {3, 6} THEN time[i] = ":" ELSE IsDigit(time[i])

IsoClock(time) ==
  IF IsoShape(time)
  THEN ClockFields(DigitsValue(SubSeq(time, 1, 2)),
                   IF Len(time) >= 5 THEN DigitsValue(SubSeq(time, 4, 5)) ELSE 0,
                   IF Len(time) = 8 THEN DigitsValue(SubSeq(time, 7, 8)) ELSE 0)
  ELSE [valid |-> FALSE, minute |-> 0, second |-> 0]

\* the instant of parsed wall-clock fields read offsetMinutes east of UTC,
\* or NaN
MomentTz(day, clock, offsetMinutes) ==
  IF day >= 0 /\ clock.valid
  THEN day * MsPerDay + clock.minute * MsPerMinute + clock.second * 1000
       - offsetMinutes * MsPerMinute
  ELSE NaN

\* a variant that reads a combined string as UTC wall-clock time
MomentTzIso_ReadAsUTC(text) ==
  MomentTz(text.day, IsoClock(text.time), IF Present(text.zone) THEN text.zone[1] ELSE 0)

\* moment.tz(appointmentDateTime, "Asia/Kolkata"): a string that carries a
\* zone designator is read in that zone, any other in Asia/Kolkata
MomentTzIso(text) ==
  MomentTz(text.day, IsoClock(text.time),
           IF Present(text.zone) THEN text.zone[1] ELSE IstOffsetMinutes)

\* moment.tz(`${date} ${time}`, "YYYY-MM-DD HH:mm", "Asia/Kolkata")
MomentTzFormat(day, time) == MomentTz(day, FormatClock(time), IstOffsetMinutes)

\* appointmentMoment of scheduleAppointments and the error thrown while
\* deriving it
AppointmentMoment(body) ==
  LET Checked(instant) ==
        [ error |-> IF instant = NaN THEN "InvalidAppointmentDateTime" ELSE "none",
          instant |-> instant ]
  IN  IF Present(body.appointmentDateTime)
      THEN Checked(MomentTzIso(body.appointmentDateTime[1]))
      ELSE IF Present(body.date) /\ Present(body.time)
      THEN Checked(MomentTzFormat(body.date[1], body.time[1]))
      ELSE Checked(NaN)

\* appointmentMoment.format("HH:mm"), as the minute of the day in the zone
FormatTime(instant) == ((instant + IstOffsetMs) % MsPerDay) \div MsPerMinute

(***************************************************************************)
(* Status classification at scheduling and at update.                      *)
(***************************************************************************)
ScheduleStatus(nowUTC, appointmentDateTimeUTC, expiresAt) ==
  IF nowUTC < appointmentDateTimeUTC THEN UPCOMING
  ELSE IF nowUTC >= appointmentDateTimeUTC /\ nowUTC <= expiresAt THEN ONGOING
  ELSE COMPLETED

\* a comparison with an invalid Date is false
UpdateStatus(nowUTC, appointmentDateTime, expiresAt) ==
  IF appointmentDateTime = NaN THEN UPCOMING
  ELSE IF nowUTC >= appointmentDateTime /\ nowUTC <= expiresAt THEN ONGOING
  ELSE IF nowUTC > expiresAt THEN COMPLETED
  ELSE UPCOMING

(***************************************************************************)
(* Sequential codes.                                                       *)
(***************************************************************************)
RECURSIVE ToDigits(_)
ToDigits(n) == IF n < 10 THEN <<n>> ELSE Append(ToDigits(n \div 10), n % 10)

RECURSIVE PadStart(_, _)
PadStart(d, width) == IF Len(d) >= width THEN d ELSE PadStart(<<0>> \o d, width)

FormatCode(prefix, n, width) == [prefix |-> prefix, digits |-> PadStart(ToDigits(n), width)]

(***************************************************************************)
(* The store.  A db is the record of the mutable collections; the position *)
(* of a document in its collection is its _id.                             *)
(***************************************************************************)
DB == [ appointments |-> appointments, payments |-> payments,
        notifications |-> notifications,
        aptTracker |-> aptTracker, txnTracker |-> txnTracker ]

\* The tracker documents of a company are kept in insertion order; neither
\* tracker schema declares an index on companyId.
\* the lastAptId / lastTxnId of the document a query {companyId} finds
Found(docs) == IF docs = << >> THEN 0 ELSE Head(docs)

\* findOneAndUpdate(query, {$inc: {field: 1}}, {upsert: true}) as one
\* operation: the found document is incremented, and when there is none a
\* document is inserted whose field is the default 0 incremented
FindOneAndUpdate(docs) ==
  IF docs = << >> THEN <<1>> ELSE [docs EXCEPT ![1] = @ + 1]

\* AppointmentIdTracker.findOneAndUpdate({companyId}, {$inc: {lastAptId: 1}},
\* {new: true, upsert: true})
IncLastAptId(db, companyId) ==
  [db EXCEPT !.aptTracker[companyId] = FindOneAndUpdate(@)]

generateNextAptId(db, companyId) ==
  LET after == IncLastAptId(db, companyId)
  IN  [ db |-> after,
        id |-> FormatCode("#APT", Found(after.aptTracker[companyId]), APT_PAD) ]

IncLastTxnId(db, companyId) ==
  [db EXCEPT !.txnTracker[companyId] = FindOneAndUpdate(@)]

generateNextTransactionId(db, companyId) ==
  LET after == IncLastTxnId(db, companyId)
  IN  [ db |-> after,
        id |-> FormatCode("#TXN", Found(after.txnTracker[companyId]), TXN_PAD) ]

\* the unique index {appointmentId: 1, companyId: 1} of the Appointment schema
AppointmentIndexAdmits(db, doc) ==
  \A i \in 1..Len(db.appointments) :
     ~( db.appointments[i].appointmentId = doc.appointmentId
        /\ db.appointments[i].companyId = doc.companyId )

\* newAppointment.save(): schema validation, the unique index, the write
SaveAppointment(db, doc, fails) ==
  IF fails \/ doc.status \notin PAYMENT_STATUS_ENUM \/ ~AppointmentIndexAdmits(db, doc)
  THEN [db |-> db, ok |-> FALSE, _id |-> 0]
  ELSE [db |-> [db EXCEPT !.appointments = Append(@, doc)],
        ok |-> TRUE, _id |-> Len(db.appointments) + 1]

\* the unique index on transactionId of the Payment schema
PaymentIndexAdmits(db, doc) ==
  \A i \in 1..Len(db.payments) : db.payments[i].transactionId # doc.transactionId

\* payment.save()
SavePayment(db, doc, fails) ==
  IF fails \/ doc.status \notin PAYMENT_STATUS_ENUM \/ ~PaymentIndexAdmits(db, doc)
  THEN [db |-> db, ok |-> FALSE]
  ELSE [db |-> [db EXCEPT !.payments = Append(@, doc)], ok |-> TRUE]

\* saveNotification(notification)
saveNotification(db, notification, fails) ==
  IF fails
  THEN [db |-> db, ok |-> FALSE]
  ELSE [db |-> [db EXCEPT !.notifications = Append(@, notification)], ok |-> TRUE]

(***************************************************************************)
(* Appointment Scheduler: scheduleAppointments.                            *)
(***************************************************************************)
\* String.prototype.toUpperCase on one character
ToUpper(c) ==
  CASE c = "c" -> "C" [] c = "l" -> "L" [] c = "x" -> "X"
    [] OTHER -> c

UpperCase(s) == [i \in 1..Len(s) |-> ToUpper(s[i])]

\* Client.findOne({clientId: formattedClientId, companyId})
FindClient(clientId, companyId) ==
  { c \in Clients : c.clientId = UpperCase(clientId) /\ c.companyId = companyId }

\* parseDurationToMinutes(duration) of each service
ServiceDuration ==
  [sv \in DOMAIN Services |-> parseDurationToMinutes(Services[sv].duration)]

Failure(error) ==
  [ error |-> error, client |-> "", price |-> 0, date |-> NaN, time |-> 0,
    expiresAt |-> NaN, appointmentStatus |-> UPCOMING ]

\* the part of scheduleAppointments before the first write: the time
\* normalization, the three lookups, the expiry and the status
\* moment is appointmentMoment, client the result of the client lookup and
\* duration the result of parseDurationToMinutes
Validate(body, nowUTC, moment, client, duration) ==
  LET durationMs == (duration.num * MsPerMinute) \div duration.den
      expiresAt == IF duration.huge THEN NaN ELSE moment.instant + durationMs
  IN  IF moment.error # "none" THEN Failure(moment.error)
      ELSE IF body.stylistId \notin DOMAIN Employees THEN Failure("StylistNotFound")
      ELSE IF client = {} THEN Failure("ClientNotFound")
      ELSE IF body.service \notin DOMAIN Services THEN Failure("ServiceNotFound")
      ELSE IF duration.error # "none" THEN Failure(duration.error)
      ELSE IF expiresAt = NaN THEN Failure("InvalidExpireTimeCalculation")
      ELSE [ error |-> "none",
             client |-> (CHOOSE c \in client : TRUE)._id,
             price |-> Services[body.service].price,
             date |-> moment.instant,
             time |-> FormatTime(moment.instant),
             expiresAt |-> expiresAt,
             appointmentStatus |-> ScheduleStatus(nowUTC, moment.instant, expiresAt) ]

ValidateSchedule(req, nowUTC) ==
  Validate(req.body, nowUTC, AppointmentMoment(req.body),
           FindClient(req.body.clientId, req.companyId),
           ServiceDuration[req.body.service])

\* new Appointment({...})
NewAppointment(req, v, appointmentId) ==
  [ appointmentId |-> appointmentId,
    companyId |-> req.companyId,
    clientId |-> req.body.clientId,
    client |-> v.client,
    service |-> req.body.service,
    stylistId |-> req.body.stylistId,
    date |-> v.date,
    time |-> v.time,
    expiresAt |-> v.expiresAt,
    status |-> req.body.paidStatus,
    appointmentStatus |-> v.appointmentStatus,
    isTrashed |-> FALSE ]

\* new Payment({...}) with its transactionId
NewPayment(req, v, appointment, transactionId) ==
  [ companyId |-> req.companyId,
    appointmentId |-> appointment,
    amount |-> v.price,
    status |-> req.body.paidStatus,
    transactionId |-> transactionId ]

\* of the details of a notification the model keeps the appointment's _id
ScheduledNotification(req, v, appointment) ==
  [ companyId |-> req.companyId,
    type |-> "appointment",
    appointmentId |-> appointment ]

\* the payment block: the transaction code is drawn, then the Payment saved
PaymentStep(db, req, v, appointment, fails) ==
  IF v.price > 0
  THEN LET t == generateNextTransactionId(db, req.companyId)
       IN  SavePayment(t.db, NewPayment(req, v, appointment, t.id), fails)
  ELSE [db |-> db, ok |-> TRUE]

\* the second generateNextTransactionId and the assignment
\* payment.transactionId = transactionId, which throws a TypeError when
\* payment is still the string ""
SecondTransactionId(db, req, v) ==
  [ db |-> generateNextTransactionId(db, req.companyId).db,
    ok |-> v.price > 0 ]

Outcome(db, error, appointment) ==
  [db |-> db, error |-> error, appointment |-> appointment]

\* fault names the storage write that fails in this invocation, if any.
\* The invocation from the notification on; s is the saved appointment and
\* t the store after the second transaction code
Notify(req, v, s, t, fault) ==
  LET n == saveNotification(t.db, ScheduledNotification(req, v, s._id),
                            fault = "notification")
  IN  IF ~t.ok THEN Outcome(t.db, "TypeError", 0)
      ELSE IF ~n.ok THEN Outcome(n.db, "FailedToSaveNotification", 0)
      ELSE Outcome(n.db, "none", s._id)

\* the invocation from the payment block on; p is its result
Pay(req, v, s, p, fault) ==
  IF ~p.ok THEN Outcome(p.db, "PaymentSaveFailed", 0)
  ELSE Notify(req, v, s, SecondTransactionId(p.db, req, v), fault)

\* the invocation from newAppointment.save() on; s is its result
Save(req, v, s, fault) ==
  IF ~s.ok THEN Outcome(s.db, "AppointmentSaveFailed", 0)
  ELSE Pay(req, v, s, PaymentStep(s.db, req, v, s._id, fault = "payment"), fault)

\* the invocation from generateNextAptId on; g is its result
Book(req, v, g, fault) ==
  Save(req, v, SaveAppointment(g.db, NewAppointment(req, v, g.id),
                               fault = "appointment"), fault)

\* the appointment code drawn before the request is validated
scheduleAppointments_IdBeforeValidation(db, req, nowUTC, fault) ==
  LET Continue(v, g) == IF v.error # "none" THEN Outcome(g.db, v.error, 0)
                         ELSE Book(req, v, g, fault)
  IN  Continue(ValidateSchedule(req, nowUTC), generateNextAptId(db, req.companyId))

scheduleAppointments(db, req, nowUTC, fault) ==
  LET Continue(v) == IF v.error # "none" THEN Outcome(db, v.error, 0)
                      ELSE Book(req, v, generateNextAptId(db, req.companyId), fault)
  IN  Continue(ValidateSchedule(req, nowUTC))

(***************************************************************************)
(* Appointment Update Handler: updateAppointmentService.  An id of 0       *)
(* stands for a string that is no ObjectId.                                *)
(***************************************************************************)
\* Appointment.findOne({_id: id, companyId})
FindAppointment(db, id, companyId) ==
  id \in 1..Len(db.appointments) /\ db.appointments[id].companyId = companyId

\* new Date(`${updateData.date}T${updateData.time}Z`)
UpdateDateTime(day, minute) ==
  IF ValidWallClock(day, minute)
  THEN day * MsPerDay + minute * MsPerMinute
  ELSE NaN

\* updateData after the status handling of the handler
HandleStatus(updateData, nowUTC) ==
  IF updateData.appointmentStatus = <<CANCELLED>> THEN updateData
  ELSE IF Present(updateData.date) /\ Present(updateData.time)
  THEN LET appointmentDateTime == UpdateDateTime(updateData.date[1], updateData.time[1])
           expiresAt == IF appointmentDateTime = NaN THEN NaN
                        ELSE appointmentDateTime + TWO_HOURS_IN_MS
       IN  [updateData EXCEPT
              !.appointmentStatus = <<UpdateStatus(nowUTC, appointmentDateTime, expiresAt)>>]
  ELSE updateData

\* the cast of a date string "YYYY-MM-DD" to the Date field of the schema
CastDate(day) == day * MsPerDay

\* the document after {$set: updateData}
ApplyUpdate(doc, updateData) ==
  [doc EXCEPT
     !.appointmentStatus =
        IF Present(updateData.appointmentStatus) THEN updateData.appointmentStatus[1] ELSE @,
     !.date = IF Present(updateData.date) THEN CastDate(updateData.date[1]) ELSE @,
     !.time = IF Present(updateData.time) THEN updateData.time[1] ELSE @]

\* Appointment.findByIdAndUpdate(id, updateData, {runValidators: true})
FindByIdAndUpdate(db, id, updateData) ==
  [db EXCEPT !.appointments[id] = ApplyUpdate(@, updateData)]

UpdatedNotification(db, id, companyId) ==
  [ companyId |-> companyId,
    type |-> "appointment",
    appointmentId |-> id ]

\* the guard letting an Ongoing appointment be cancelled too
CancellationRejected_OngoingAdmitted(doc, updateData) ==
  /\ updateData.appointmentStatus = <<CANCELLED>>
  /\ doc.appointmentStatus \notin {UPCOMING, ONGOING}

\* the cancellation guard of the handler
CancellationRejected(doc, updateData) ==
  /\ updateData.appointmentStatus = <<CANCELLED>>
  /\ doc.appointmentStatus # UPCOMING

\* the patch written before the cancellation guard is evaluated
updateAppointmentService_WriteBeforeGuard(db, id, updateData, companyId, nowUTC, fault) ==
  LET appointment == db.appointments[id]
      u == FindByIdAndUpdate(db, id, HandleStatus(updateData, nowUTC))
      n == saveNotification(u, UpdatedNotification(db, id, companyId),
                            fault = "notification")
  IN  IF id = 0 THEN Outcome(db, "InvalidIdFormat", 0)
      ELSE IF ~FindAppointment(db, id, companyId)
      THEN Outcome(db, "AppointmentNotFound", 0)
      ELSE IF CancellationRejected(appointment, updateData)
      THEN Outcome(u, "OnlyUpcomingAppointmentsCanBeCancelled", 0)
      ELSE IF ~n.ok THEN Outcome(n.db, "FailedToSaveNotification", 0)
      ELSE Outcome(n.db, "none", id)

updateAppointmentService(db, id, updateData, companyId, nowUTC, fault) ==
  LET appointment == db.appointments[id]
      n == saveNotification(FindByIdAndUpdate(db, id, HandleStatus(updateData, nowUTC)),
                            UpdatedNotification(db, id, companyId),
                            fault = "notification")
  IN  IF id = 0 THEN Outcome(db, "InvalidIdFormat", 0)
      ELSE IF ~FindAppointment(db, id, companyId)
      THEN Outcome(db, "AppointmentNotFound", 0)
      ELSE IF CancellationRejected(appointment, updateData)
      THEN Outcome(db, "OnlyUpcomingAppointmentsCanBeCancelled", 0)
      ELSE IF ~n.ok THEN Outcome(n.db, "FailedToSaveNotification", 0)
      ELSE Outcome(n.db, "none", id)

(***************************************************************************)
(* deleteAppointment: the soft delete.                                     *)
(***************************************************************************)
deleteAppointment(db, id, companyId) ==
  IF id = 0 THEN Outcome(db, "InvalidIdFormat", 0)
  ELSE IF ~FindAppointment(db, id, companyId)
  THEN Outcome(db, "AppointmentNotFound", 0)
  ELSE Outcome([db EXCEPT !.appointments[id].isTrashed = TRUE], "none", id)

(***************************************************************************)
(* Status Reconciliation Sweep: updateAppointmentStatuses and the cron.    *)
(***************************************************************************)
\* Appointment.updateMany(filter, {$set: {appointmentStatus: status}})
\* the _ids of the documents a filter matches
Find(db, Matches(_)) == { i \in 1..Len(db.appointments) : Matches(db.appointments[i]) }

UpdateMany(db, matched, status) ==
  [db EXCEPT !.appointments =
     [i \in 1..Len(@) |->
        IF i \in matched THEN [@[i] EXCEPT !.appointmentStatus = status] ELSE @[i]]]

\* the Ongoing update without isTrashed in its filter
MarkOngoing_TrashedNotExcluded(db, companyId, nowUTC) ==
  LET Matches(a) == /\ a.companyId = companyId
                    /\ a.date <= nowUTC
                    /\ a.expiresAt > nowUTC
                    /\ a.appointmentStatus \notin {ONGOING, CANCELLED}
  IN  UpdateMany(db, Find(db, Matches), ONGOING)

\* the Completed update without Cancelled in its $nin
MarkCompleted_CancelledNotExcluded(db, companyId, nowUTC) ==
  LET Matches(a) == /\ a.isTrashed = FALSE
                    /\ a.companyId = companyId
                    /\ a.expiresAt <= nowUTC
                    /\ a.appointmentStatus \notin {COMPLETED}
  IN  UpdateMany(db, Find(db, Matches), COMPLETED)

MarkCompleted(db, companyId, nowUTC) ==
  LET Matches(a) == /\ a.isTrashed = FALSE
                    /\ a.companyId = companyId
                    /\ a.expiresAt <= nowUTC
                    /\ a.appointmentStatus \notin {COMPLETED, CANCELLED}
  IN  UpdateMany(db, Find(db, Matches), COMPLETED)

MarkOngoing(db, companyId, nowUTC) ==
  LET Matches(a) == /\ a.isTrashed = FALSE
                    /\ a.companyId = companyId
                    /\ a.date <= nowUTC
                    /\ a.expiresAt > nowUTC
                    /\ a.appointmentStatus \notin {ONGOING, CANCELLED}
  IN  UpdateMany(db, Find(db, Matches), ONGOING)

\* the Upcoming update without the start in its filter
MarkUpcoming_StartNotChecked(db, companyId, nowUTC) ==
  LET Matches(a) == /\ a.isTrashed = FALSE
                    /\ a.companyId = companyId
                    /\ a.appointmentStatus \notin {UPCOMING, CANCELLED}
  IN  UpdateMany(db, Find(db, Matches), UPCOMING)

MarkUpcoming(db, companyId, nowUTC) ==
  LET Matches(a) == /\ a.isTrashed = FALSE
                    /\ a.companyId = companyId
                    /\ a.date > nowUTC
                    /\ a.appointmentStatus \notin {UPCOMING, CANCELLED}
  IN  UpdateMany(db, Find(db, Matches), UPCOMING)

\* the calls of updateAppointmentStatuses that can reject, in order
SweepSteps == <<"find", "completed", "ongoing", "upcoming">>

\* a storage failure of one sweep tick: the company whose status update
\* fails and the call that rejects ("distinct" is the query of the cron)
NoFault == [company |-> "none", step |-> "none"]

\* the store when the call named step rejects (a rejected updateMany is
\* taken to have written nothing) or, with step "none", when none does
StatusUpdates(db, companyId, nowUTC, step) ==
  IF step \in {"find", "completed"} THEN db
  ELSE IF step = "ongoing" THEN MarkCompleted(db, companyId, nowUTC)
  ELSE IF step = "upcoming"
  THEN MarkOngoing(MarkCompleted(db, companyId, nowUTC), companyId, nowUTC)
  ELSE MarkUpcoming(MarkOngoing(MarkCompleted(db, companyId, nowUTC), companyId, nowUTC),
                    companyId, nowUTC)

\* a variant whose catch block throws the error again
updateAppointmentStatuses_Rethrows(db, companyId, nowUTC, fault) ==
  [ db |-> StatusUpdates(db, companyId, nowUTC,
                         IF fault.company = companyId THEN fault.step ELSE "none"),
    thrown |-> fault.company = companyId /\ fault.step # "none" ]

\* updateAppointmentStatuses: the catch block logs and the function returns
updateAppointmentStatuses(db, companyId, nowUTC, fault) ==
  [ db |-> StatusUpdates(db, companyId, nowUTC,
                         IF fault.company = companyId THEN fault.step ELSE "none"),
    thrown |-> FALSE ]

\* Appointment.distinct("companyId", {isTrashed: false})
DistinctCompanies(db) ==
  { db.appointments[i].companyId :
      i \in { j \in 1..Len(db.appointments) : db.appointments[j].isTrashed = FALSE } }

\* the orders in which distinct can return the companies
Orders(companies) ==
  { order \in [1..Cardinality(companies) -> companies] :
      \A i, j \in DOMAIN order : order[i] = order[j] => i = j }

\* the loop of the cron callback over the companies: an error thrown by a
\* call leaves the loop
RECURSIVE SweepCompanies(_, _, _, _)
SweepResume(r, order, nowUTC, fault) ==
  IF r.thrown THEN r ELSE SweepCompanies(r.db, order, nowUTC, fault)

SweepCompanies(db, order, nowUTC, fault) ==
  IF order = << >> THEN [db |-> db, thrown |-> FALSE]
  ELSE SweepResume(updateAppointmentStatuses(db, Head(order), nowUTC, fault),
                   Tail(order), nowUTC, fault)

\* the cron callback: what is thrown inside its try block is logged
SweepTick(db, order, nowUTC, fault) ==
  IF fault.step = "distinct"
  THEN Outcome(db, "none", 0)
  ELSE Outcome(SweepCompanies(db, order, nowUTC, fault).db, "none", 0)

(***************************************************************************)
(* The requests and the clock instants the model draws from.               *)
(***************************************************************************)
\* the days of the sample schedule requests and of the sample patches
ScheduleDays == {0}
PatchDays == {1}

\* 10:00, the wall-clock time of the sample requests
SampleMinute == 10 * 60

\* a time of day that does not parse ("25:00")
BadMinute == 25 * 60

\* two decimal digits, as characters
TwoDigits(n) ==
  LET Char == <<"0","1","2","3","4","5","6","7","8","9">>
  IN  <<Char[(n \div 10) + 1], Char[(n % 10) + 1]>>

\* the text "HH:mm" of an hour and a minute
ClockOf(hour, minute) == TwoDigits(hour) \o <<":">> \o TwoDigits(minute)

\* the text "HH:mm" of a minute of the day ("25:00" for 25 * 60)
ClockText(minute) == ClockOf(minute \div 60, minute % 60)

\* the time fields of a request body in the separate shape
SeparateText(day, time) ==
  [appointmentDateTime |-> Absent, date |-> <<day>>, time |-> <<time>>]

\* the time fields of a request body in the combined shape, an ISO 8601
\* string without zone designator
CombinedText(day, sep, time) ==
  [appointmentDateTime |-> <<[day |-> day, sep |-> sep, time |-> time, zone |-> Absent]>>,
   date |-> Absent, time |-> Absent]

Separate(day, minute) == SeparateText(day, ClockText(minute))

Combined(day, minute) == CombinedText(day, "T", ClockText(minute))

NoTime == [appointmentDateTime |-> Absent, date |-> Absent, time |-> Absent]

Request(companyId, clientId, service, stylistId, paidStatus, timeInput) ==
  [ companyId |-> companyId,
    body |-> [ clientId |-> clientId, service |-> service, stylistId |-> stylistId,
               paidStatus |-> paidStatus,
               appointmentDateTime |-> timeInput.appointmentDateTime,
               date |-> timeInput.date, time |-> timeInput.time ] ]

\* the employee each company books as stylist
Stylist == [A |-> "e1", B |-> "e2"]

\* the client code each company submits, in lower case
ClientCode == [A |-> <<"c","l","0","0","1">>, B |-> <<"c","l","0","0","2">>]

\* the requests of the lifecycle specification: one service, one shape
LifecycleRequests ==
  { Request(c, ClientCode[c], "sv30", Stylist[c], "paid", Separate(d, SampleMinute)) :
      c \in Companies, d \in ScheduleDays }

\* requests that pass every validation of scheduleAppointments; the last one
\* names the employee of the other company
GoodRequests ==
  { Request(c, ClientCode[c], "sv30", Stylist[c], "paid", Separate(0, SampleMinute)) :
      c \in Companies }
  \cup { Request("A", ClientCode["A"], "svFree", "e1", "paid", Separate(0, SampleMinute)) }
  \cup { Request("A", ClientCode["A"], "sv30", "e1", ps, Combined(0, SampleMinute)) :
           ps \in PaidStatusInputs }
  \cup { Request("A", ClientCode["A"], "svZero", "e1", "paid", Separate(0, SampleMinute)) }
  \cup { Request("A", ClientCode["A"], "sv30", Stylist["B"], "paid",
                 Separate(0, SampleMinute)) }

\* requests that fail one validation each
BadRequests ==
  { Request("A", ClientCode["A"], "sv30", "e1", "paid", t) :
      t \in {NoTime, Separate(0, BadMinute), Combined(0, BadMinute)} }
  \cup { Request("A", ClientCode["A"], "sv30", "e0", "paid", Separate(0, SampleMinute)),
         Request("A", <<"c","l","9","9","9">>, "sv30", "e1", "paid", Separate(0, SampleMinute)),
         Request("B", ClientCode["A"], "sv30", "e2", "paid", Separate(0, SampleMinute)),
         Request("A", ClientCode["A"], "sv0", "e1", "paid", Separate(0, SampleMinute)) }
  \cup { Request("A", ClientCode["A"], sv, "e1", "paid", Separate(0, SampleMinute)) :
           sv \in {"svSoon", "svM", "svHuge"} }

Faults == {"none", "appointment", "payment", "notification"}

NoPatch == [appointmentStatus |-> Absent, date |-> Absent, time |-> Absent]

Patches ==
  { [appointmentStatus |-> st, date |-> Absent, time |-> Absent] :
      st \in {<<CANCELLED>>, <<UPCOMING>>} }
  \cup { [appointmentStatus |-> Absent, date |-> <<d>>, time |-> <<SampleMinute>>] :
           d \in PatchDays }

\* the instants at which a stored or a derived window of the sample requests
\* begins or ends
Boundaries ==
  UNION { { AppointmentMoment(Separate(d, SampleMinute)).instant,
            AppointmentMoment(Separate(d, SampleMinute)).instant + 30 * MsPerMinute } :
            d \in ScheduleDays }
  \cup UNION { { CastDate(d),
                 UpdateDateTime(d, SampleMinute),
                 UpdateDateTime(d, SampleMinute) + TWO_HOURS_IN_MS,
                 UpdateDateTime(d, SampleMinute) + TWO_HOURS_IN_MS + 1 } : d \in PatchDays }

\* the instants at which the clock is read
ClockInstants == Boundaries

InitialNow == 0 - 1

(***************************************************************************)
(* The state machine.  lastCall is the outcome of the latest operation.    *)
(***************************************************************************)
Call(op, error, appointment, patch, fault) ==
  [ op |-> op, error |-> error, appointment |-> appointment, patch |-> patch,
    fault |-> fault ]

Init ==
  /\ now = InitialNow
  /\ appointments = << >>
  /\ payments = << >>
  /\ notifications = << >>
  /\ aptTracker = [c \in Companies |-> << >>]
  /\ txnTracker = [c \in Companies |-> << >>]
  /\ lastCall = Call("none", "none", 0, NoPatch, "none")
  /\ inflight = << >>

StoreVars == <<appointments, payments, notifications, aptTracker, txnTracker>>

Commit(db) ==
  /\ appointments' = db.appointments
  /\ payments' = db.payments
  /\ notifications' = db.notifications
  /\ aptTracker' = db.aptTracker
  /\ txnTracker' = db.txnTracker

\* the guards that keep the model finite
LifecycleBound ==
  /\ Len(appointments) < MaxAppointments
  /\ Len(notifications) < MaxNotifications

SchedulingBound ==
  LET RECURSIVE Sum(_)
      Sum(S) == IF S = {} THEN 0
                ELSE LET c == CHOOSE x \in S : TRUE
                     IN  Found(aptTracker[c]) + Sum(S \ {c})
  IN  Sum(Companies) < MaxAptId

ClockAdvance ==
  /\ inflight = << >>
  /\ \E t \in ClockInstants : t > now /\ now' = t
  /\ UNCHANGED <<appointments, payments, notifications, aptTracker, txnTracker,
                 lastCall, inflight>>

ScheduleAppointment(req, fault) ==
  /\ inflight = << >>
  /\ \E r \in {scheduleAppointments(DB, req, now, fault)} :
         /\ Commit(r.db)
         /\ lastCall' = Call("schedule", r.error, r.appointment, NoPatch, fault)
  /\ UNCHANGED <<now, inflight>>

UpdateAppointment(id, updateData, companyId, fault) ==
  /\ inflight = << >>
  /\ Len(notifications) < MaxNotifications
  /\ \E r \in {updateAppointmentService(DB, id, updateData, companyId, now, fault)} :
         /\ Commit(r.db)
         /\ lastCall' = Call("update", r.error, id, updateData, fault)
  /\ UNCHANGED <<now, inflight>>

DeleteAppointment(id, companyId) ==
  /\ inflight = << >>
  /\ \E r \in {deleteAppointment(DB, id, companyId)} :
         /\ Commit(r.db)
         /\ lastCall' = Call("delete", r.error, id, NoPatch, "none")
  /\ UNCHANGED <<now, inflight>>

StatusCron ==
  /\ inflight = << >>
  /\ Commit(SweepTick(DB, CHOOSE order \in Orders(DistinctCompanies(DB)) : TRUE,
                      now, NoFault).db)
  /\ lastCall' = Call("sweep", "none", 0, NoPatch, "none")
  /\ UNCHANGED <<now, inflight>>

Next ==
  \/ ClockAdvance
  \/ \E req \in LifecycleRequests :
        LifecycleBound /\ ScheduleAppointment(req, "none")
  \/ \E id \in 0..MaxAppointments, p \in Patches, c \in Companies :
        UpdateAppointment(id, p, c, "none")
  \/ \E id \in 0..MaxAppointments, c \in Companies : DeleteAppointment(id, c)
  \/ StatusCron

Spec == Init /\ [][Next]_vars

\* the scheduler alone, over every sample request; the storage faults go with
\* the requests that reach a storage write
NextSchedule ==
  \/ \E req \in GoodRequests, fault \in Faults :
        SchedulingBound /\ ScheduleAppointment(req, fault)
  \/ \E req \in BadRequests :
        SchedulingBound /\ ScheduleAppointment(req, "none")

SpecSchedule == Init /\ [][NextSchedule]_vars

(***************************************************************************)
(* Concurrent invocations of scheduleAppointments.  An invocation runs to  *)
(* its next await and there yields to the others, so each storage call is  *)
(* a step of its own.  inflight holds the invocations in order of arrival: *)
(* the request, the position (pc) and the locals aptId, _id, transactionId.*)
(* An upsert whose query finds no tracker document is two steps, the find  *)
(* and the insert: nothing orders the inserts of two such upserts.         *)
(***************************************************************************)
ConcurrentRequests ==
  { Request(c, ClientCode[c], sv, Stylist[c], "paid", Separate(0, SampleMinute)) :
      c \in Companies, sv \in {"sv30", "svFree"} }

Invocation(req) ==
  [ req |-> req, pc |-> "generateNextAptId", aptId |-> Absent, _id |-> 0,
    transactionId |-> Absent, error |-> "none" ]

Validated(i) == ValidateSchedule(inflight[i].req, now)

Company(i) == inflight[i].req.companyId

Resume(i, locals) ==
  /\ inflight' = [inflight EXCEPT ![i] = locals]
  /\ UNCHANGED <<now, lastCall>>

Throw(i, error) ==
  Resume(i, [inflight[i] EXCEPT !.pc = "done", !.error = error])

\* the invocation arrives; its validations read only the catalogue
Arrive(req) ==
  /\ Len(inflight) < MaxInflight
  /\ ValidateSchedule(req, now).error = "none"
  /\ inflight' = Append(inflight, Invocation(req))
  /\ UNCHANGED <<now, lastCall, StoreVars>>

\* generateNextAptId: the find half of the upsert; a found document is
\* incremented and read back in the same operation
AptIdFind(i) ==
  /\ inflight[i].pc = "generateNextAptId"
  /\ IF aptTracker[Company(i)] = << >>
     THEN /\ Resume(i, [inflight[i] EXCEPT !.pc = "insertAptTracker"])
          /\ UNCHANGED StoreVars
     ELSE \E k \in 1..Len(aptTracker[Company(i)]) :
            /\ aptTracker' = [aptTracker EXCEPT ![Company(i)][k] = @ + 1]
            /\ Resume(i, [inflight[i] EXCEPT
                            !.pc = "saveAppointment",
                            !.aptId = <<FormatCode("#APT",
                                         aptTracker[Company(i)][k] + 1, APT_PAD)>>])
            /\ UNCHANGED <<appointments, payments, notifications, txnTracker>>

\* generateNextAptId: the insert half of an upsert that found no document
AptIdInsert(i) ==
  /\ inflight[i].pc = "insertAptTracker"
  /\ aptTracker' = [aptTracker EXCEPT ![Company(i)] = Append(@, 1)]
  /\ Resume(i, [inflight[i] EXCEPT !.pc = "saveAppointment",
                                   !.aptId = <<FormatCode("#APT", 1, APT_PAD)>>])
  /\ UNCHANGED <<appointments, payments, notifications, txnTracker>>

\* await newAppointment.save()
AppointmentSave(i) ==
  /\ inflight[i].pc = "saveAppointment"
  /\ \E s \in { SaveAppointment(DB, NewAppointment(inflight[i].req, Validated(i),
                                                   inflight[i].aptId[1]), FALSE) } :
        /\ Commit(s.db)
        /\ IF s.ok
           THEN Resume(i, [inflight[i] EXCEPT
                             !._id = s._id,
                             !.pc = IF Validated(i).price > 0
                                    THEN "generateNextTransactionId"
                                    ELSE "generateNextTransactionId2"])
           ELSE Throw(i, "AppointmentSaveFailed")

\* where the invocation continues once a transaction code is drawn: the
\* first code goes to payment.save(), the second is assigned to payment,
\* which throws when payment is the string ""
AfterTransactionId(i, first, code) ==
  IF first
  THEN Resume(i, [inflight[i] EXCEPT !.pc = "savePayment", !.transactionId = <<code>>])
  ELSE IF Validated(i).price > 0
       THEN Resume(i, [inflight[i] EXCEPT !.pc = "saveNotification",
                                          !.transactionId = <<code>>])
       ELSE Throw(i, "TypeError")

\* generateNextTransactionId, the find half of the upsert
TxnIdFind(i) ==
  /\ inflight[i].pc \in {"generateNextTransactionId", "generateNextTransactionId2"}
  /\ IF txnTracker[Company(i)] = << >>
     THEN /\ Resume(i, [inflight[i] EXCEPT
                          !.pc = IF @ = "generateNextTransactionId"
                                 THEN "insertTxnTracker" ELSE "insertTxnTracker2"])
          /\ UNCHANGED StoreVars
     ELSE \E k \in 1..Len(txnTracker[Company(i)]) :
            /\ txnTracker' = [txnTracker EXCEPT ![Company(i)][k] = @ + 1]
            /\ AfterTransactionId(i, inflight[i].pc = "generateNextTransactionId",
                  FormatCode("#TXN", txnTracker[Company(i)][k] + 1, TXN_PAD))
            /\ UNCHANGED <<appointments, payments, notifications, aptTracker>>

\* generateNextTransactionId, the insert half of the upsert
TxnIdInsert(i) ==
  /\ inflight[i].pc \in {"insertTxnTracker", "insertTxnTracker2"}
  /\ txnTracker' = [txnTracker EXCEPT ![Company(i)] = Append(@, 1)]
  /\ AfterTransactionId(i, inflight[i].pc = "insertTxnTracker",
                        FormatCode("#TXN", 1, TXN_PAD))
  /\ UNCHANGED <<appointments, payments, notifications, aptTracker>>

\* await payment.save()
PaymentSave(i) ==
  /\ inflight[i].pc = "savePayment"
  /\ \E s \in { SavePayment(DB, NewPayment(inflight[i].req, Validated(i),
                                           inflight[i]._id,
                                           inflight[i].transactionId[1]), FALSE) } :
        /\ Commit(s.db)
        /\ IF s.ok
           THEN Resume(i, [inflight[i] EXCEPT !.pc = "generateNextTransactionId2"])
           ELSE Throw(i, "PaymentSaveFailed")

\* await saveNotification(notification); the invocation returns
NotificationSave(i) ==
  /\ inflight[i].pc = "saveNotification"
  /\ \E s \in { saveNotification(DB, ScheduledNotification(inflight[i].req,
                                       Validated(i), inflight[i]._id), FALSE) } :
        /\ Commit(s.db)
        /\ Resume(i, [inflight[i] EXCEPT !.pc = "done"])

NextConcurrent ==
  \/ \E req \in ConcurrentRequests : Arrive(req)
  \/ \E i \in 1..Len(inflight) : AptIdFind(i)
  \/ \E i \in 1..Len(inflight) : AptIdInsert(i)
  \/ \E i \in 1..Len(inflight) : AppointmentSave(i)
  \/ \E i \in 1..Len(inflight) : TxnIdFind(i)
  \/ \E i \in 1..Len(inflight) : TxnIdInsert(i)
  \/ \E i \in 1..Len(inflight) : PaymentSave(i)
  \/ \E i \in 1..Len(inflight) : NotificationSave(i)

SpecConcurrent == Init /\ [][NextConcurrent]_vars

(***************************************************************************)
(* Properties of the appointment lifecycle, checked under Spec.            *)
(***************************************************************************)
Stored == 1..Len(appointments)

\* C1: once an appointment's stored status is Cancelled, no later operation
\* (an update with any patch, a sweep tick) sets it to another status.
C1_CancelledIsTerminal ==
  [][\A i \in Stored :
        appointments[i].appointmentStatus = CANCELLED
          => appointments'[i].appointmentStatus = CANCELLED]_vars

\* C2: a sweep tick leaves the status of every Cancelled appointment
\* Cancelled, whatever its start and expiry are relative to now.
C2_SweepKeepsCancelled ==
  [][StatusCron =>
       \A i \in Stored :
          appointments[i].appointmentStatus = CANCELLED
            => appointments'[i].appointmentStatus = CANCELLED]_vars

\* a sweep tick has just run over a live Cancelled appointment whose window
\* is already past
C2_Witness ==
  /\ lastCall.op = "sweep"
  /\ \E i \in Stored :
        /\ appointments[i].appointmentStatus = CANCELLED
        /\ appointments[i].isTrashed = FALSE
        /\ appointments[i].expiresAt <= now

CancelPatch == [appointmentStatus |-> <<CANCELLED>>, date |-> Absent, time |-> Absent]

\* C3: an update whose patch sets status = Cancelled succeeds exactly when
\* the stored status is Upcoming, and then the stored status becomes
\* Cancelled; from Ongoing, Completed or Cancelled it fails with
\* OnlyUpcomingAppointmentsCanBeCancelled and the status stays.
C3_CancellationGuard ==
  [][\A id \in Stored, c \in Companies :
        ( /\ UpdateAppointment(id, CancelPatch, c, "none")
          /\ FindAppointment(DB, id, c) )
        => IF appointments[id].appointmentStatus = UPCOMING
           THEN /\ lastCall'.error = "none"
                /\ appointments'[id].appointmentStatus = CANCELLED
           ELSE /\ lastCall'.error = "OnlyUpcomingAppointmentsCanBeCancelled"
                /\ appointments'[id].appointmentStatus
                     = appointments[id].appointmentStatus]_vars

\* a cancellation has just been rejected for an appointment that is Ongoing
C3_Witness ==
  /\ lastCall.op = "update"
  /\ lastCall.patch = CancelPatch
  /\ lastCall.error = "OnlyUpcomingAppointmentsCanBeCancelled"
  /\ lastCall.appointment \in Stored
  /\ appointments[lastCall.appointment].appointmentStatus = ONGOING

\* C4: after one sweep tick at instant now every non-trashed, non-Cancelled
\* appointment is Completed if expiry <= now, Ongoing if start <= now <
\* expiry and Upcoming if start > now.
C4_SweepConvergence ==
  [][StatusCron =>
       \A i \in Stored :
          LET a == appointments'[i]
          IN  (a.isTrashed = FALSE /\ a.appointmentStatus # CANCELLED)
                => /\ a.expiresAt <= now => a.appointmentStatus = COMPLETED
                   /\ (a.date <= now /\ now < a.expiresAt)
                        => a.appointmentStatus = ONGOING
                   /\ a.date > now => a.appointmentStatus = UPCOMING]_vars

\* the status the boundaries of claim C5 assign
BoundaryStatus(nowUTC, start, expiry) ==
  IF nowUTC < start THEN UPCOMING
  ELSE IF nowUTC < expiry THEN ONGOING
  ELSE COMPLETED

\* C5: for start < expiry the status assigned at scheduling, and re-derived
\* by an update that supplies a date and time, is Upcoming for now < start,
\* Ongoing for now = start and Completed for now >= expiry.
C5_ClassificationBoundaries ==
  [][/\ ( /\ lastCall'.op = "schedule"
          /\ Len(appointments') = Len(appointments) + 1 )
        => LET a == appointments'[Len(appointments')]
           IN  a.date < a.expiresAt
                 => a.appointmentStatus = BoundaryStatus(now, a.date, a.expiresAt)
     /\ \A id \in Stored, c \in Companies, d \in PatchDays :
          LET p == [appointmentStatus |-> Absent, date |-> <<d>>,
                    time |-> <<SampleMinute>>]
              start == UpdateDateTime(d, SampleMinute)
          IN  ( /\ UpdateAppointment(id, p, c, "none")
                /\ lastCall'.error = "none" )
              => appointments'[id].appointmentStatus
                   = BoundaryStatus(now, start, start + TWO_HOURS_IN_MS)]_vars

(***************************************************************************)
(* Properties of the scheduler, checked under SpecSchedule.                *)
(***************************************************************************)
ValidationErrors ==
  { "InvalidAppointmentDateTime", "StylistNotFound", "ClientNotFound",
    "ServiceNotFound", "InvalidDurationFormat", "UnsupportedDurationUnit",
    "InvalidExpireTimeCalculation" }

StorageErrors ==
  { "AppointmentSaveFailed", "PaymentSaveFailed", "FailedToSaveNotification" }

StoredOf(companyId) == { i \in Stored : appointments[i].companyId = companyId }

CodesOf(companyId) == { appointments[i].appointmentId : i \in StoredOf(companyId) }

AptCodes(numbers) == { FormatCode("#APT", n, APT_PAD) : n \in numbers }

\* C7: the numbers on the stored appointments of a tenant are exactly 1..k
\* for its k stored appointments, also when invocations failed at the
\* Appointment write.
C7_NoGaps ==
  \A c \in Companies : CodesOf(c) = AptCodes(1..Cardinality(StoredOf(c)))

\* C8: each Appointment has at most one Payment; one scheduled against a
\* service of price 0 has none; one scheduled against a service of price > 0
\* has exactly one, of amount the price and of status the submitted
\* paid-status.  Stated of every invocation in which no storage call was
\* made to fail.
C8_PaymentConditionalCreation ==
  [][( /\ lastCall'.op = "schedule"
       /\ lastCall'.fault = "none"
       /\ Len(appointments') = Len(appointments) + 1 )
     => LET id == Len(appointments')
            a == appointments'[id]
            own == { j \in 1..Len(payments') : payments'[j].appointmentId = id }
        IN  IF Services[a.service].price > 0
            THEN /\ Cardinality(own) = 1
                 /\ \A j \in own : /\ payments'[j].amount = Services[a.service].price
                                   /\ payments'[j].status = a.status
            ELSE own = {}]_vars

\* C9: an invocation whose validations pass and whose storage calls do not
\* fail performs one Appointment write, zero or one Payment write and one
\* Notification write and returns the Appointment, for price 0 as for
\* price > 0.
C9_WritesOfASuccessfulInvocation ==
  [][( /\ lastCall'.op = "schedule"
       /\ lastCall'.fault = "none"
       /\ lastCall'.error \notin ValidationErrors \cup StorageErrors
       /\ StoreVars' # StoreVars )
     => /\ lastCall'.error = "none"
        /\ lastCall'.appointment = Len(appointments')
        /\ Len(appointments') = Len(appointments) + 1
        /\ Len(payments') - Len(payments) \in {0, 1}
        /\ Len(notifications') = Len(notifications) + 1]_vars

\* C10: an invocation that fails with InvalidAppointmentDateTime,
\* StylistNotFound, ClientNotFound, ServiceNotFound, a Duration Resolver
\* failure or InvalidExpireTimeCalculation writes nothing and advances
\* neither counter.
C10_FailedValidationWritesNothing ==
  [][( /\ lastCall'.op = "schedule"
       /\ lastCall'.error \in ValidationErrors )
     => UNCHANGED StoreVars]_vars

\* an invocation has just failed with InvalidExpireTimeCalculation while
\* appointments are stored
C10_Witness ==
  /\ lastCall.op = "schedule"
  /\ lastCall.error = "InvalidExpireTimeCalculation"
  /\ Len(appointments) > 0

(***************************************************************************)
(* Properties of concurrent scheduling, checked under SpecConcurrent.      *)
(***************************************************************************)
\* the invocations that hold an appointment code
Coded == { i \in 1..Len(inflight) : Present(inflight[i].aptId) }

\* C6: the appointment codes generated by concurrent invocations for the
\* same tenant are pairwise distinct, and no two stored appointments of one
\* tenant share a code.
C6_CodesDistinctUnderConcurrency ==
  /\ \A i, j \in Coded :
        (i # j /\ Company(i) = Company(j)) => inflight[i].aptId # inflight[j].aptId
  /\ \A i, j \in Stored :
        ( /\ i # j
          /\ appointments[i].companyId = appointments[j].companyId )
        => appointments[i].appointmentId # appointments[j].appointmentId


(***************************************************************************)
(* Further properties of the scheduler, checked under SpecSchedule.        *)
(***************************************************************************)
\* C11: once the Appointment write of an invocation has succeeded, a failure
\* of the Payment creation or of the Notification emission is absorbed: the
\* invocation returns the created Appointment.  Stated for a service of
\* price > 0, where the payment block and the notification are both reached.
C11_LaterFailuresAbsorbed ==
  [][( /\ lastCall'.op = "schedule"
       /\ lastCall'.fault \in {"payment", "notification"}
       /\ Len(appointments') = Len(appointments) + 1
       /\ Services[appointments'[Len(appointments')].service].price > 0 )
     => /\ lastCall'.error = "none"
        /\ lastCall'.appointment = Len(appointments')]_vars


(***************************************************************************)
(* Further properties of the lifecycle, checked under Spec.                *)
(***************************************************************************)
\* C12: in every reachable state every stored appointment has its expiry
\* after its start; scheduling establishes it and every update and every
\* sweep tick preserves it.
C12_ExpiryAfterStart ==
  \A i \in Stored : appointments[i].expiresAt > appointments[i].date

\* the part of C12 about scheduling alone, under SpecSchedule: a stored
\* appointment of a service whose duration string the resolver accepts has
\* its expiry after its start
ScheduledExpiryAfterStart ==
  \A i \in Stored :
     ServiceDuration[appointments[i].service].error = "none"
       => appointments[i].date < appointments[i].expiresAt


\* the latest operation was a successful update whose patch supplies a date
\* and a time and does not cancel
Rescheduled(call) ==
  /\ call.op = "update"
  /\ call.error = "none"
  /\ Present(call.patch.date)
  /\ Present(call.patch.time)
  /\ call.patch.appointmentStatus # <<CANCELLED>>

\* C13: after a successful update whose patch supplies a date D and a time
\* T, the stored start is the instant the handler recomputed from (D, T) and
\* the stored expiry is that start plus 2 hours.
C13_UpdateStoresRecomputedWindow ==
  [][Rescheduled(lastCall')
     => LET a == appointments'[lastCall'.appointment]
            start == UpdateDateTime(lastCall'.patch.date[1], lastCall'.patch.time[1])
        IN  /\ a.date = start
            /\ a.expiresAt = start + TWO_HOURS_IN_MS]_vars


C14_OtherTenantWitness ==
  /\ lastCall.op = "update"
  /\ lastCall.error = "AppointmentNotFound"
  /\ lastCall.appointment \in Stored


(***************************************************************************)
(* Properties of what the scheduler stores, checked under SpecSchedule,    *)
(* where every sample request lies after now.                              *)
(***************************************************************************)
\* the duration of a service in milliseconds, as the resolver gives it
DurationMs(service) ==
  (ServiceDuration[service].num * MsPerMinute) \div ServiceDuration[service].den

\* the appointment written last is Upcoming, expires d minutes after its
\* start, and the notification written last is of type appointment and
\* carries its identifier
UpcomingAndNotified(apts, notes) ==
  LET id == Len(apts)
  IN  /\ apts[id].appointmentStatus = UPCOMING
      /\ apts[id].expiresAt = apts[id].date + DurationMs(apts[id].service)
      /\ notes # << >>
      /\ notes[Len(notes)].type = "appointment"
      /\ notes[Len(notes)].appointmentId = id

\* C15: scheduling at a wall-clock time later than now, against a service
\* whose duration resolves, stores an Upcoming Appointment with expiry =
\* start + d minutes and records a Notification of type appointment that
\* carries the Appointment's identifier.
C15_FutureSchedulingOutcome ==
  [][( /\ lastCall'.op = "schedule"
       /\ lastCall'.fault = "none"
       /\ lastCall'.error \notin ValidationErrors )
     => /\ Len(appointments') = Len(appointments) + 1
        /\ Len(notifications') = Len(notifications) + 1
        /\ UpcomingAndNotified(appointments', notifications')]_vars

\* the same outcome, of the invocations that return
ReturnedSchedulingOutcome ==
  [][( /\ lastCall'.op = "schedule"
       /\ lastCall'.error = "none" )
     => /\ Len(appointments') = Len(appointments) + 1
        /\ Len(notifications') = Len(notifications) + 1
        /\ UpcomingAndNotified(appointments', notifications')]_vars


\* C16: a schedule request that passes the input validation and every
\* referential check persists an Appointment whose paid-status is the
\* submitted one, for paid, un-paid and processing alike.
C16_PaidStatusPersisted ==
  [][\A req \in GoodRequests :
        ScheduleAppointment(req, "none")
          => /\ Len(appointments') = Len(appointments) + 1
             /\ appointments'[Len(appointments')].status = req.body.paidStatus]_vars


\* C17: the stylist lookup is scoped to the tenant: a request of tenant A
\* naming an employee of tenant B fails with StylistNotFound, so that no
\* stored Appointment references an employee of another tenant.
C17_StylistOfSameTenant ==
  \A i \in Stored :
     Employees[appointments[i].stylistId].companyId = appointments[i].companyId


(***************************************************************************)
(* The pure functions on their own: the Time Normalizer applied to both    *)
(* shapes of one wall-clock value, and the Duration Resolver applied to    *)
(* duration strings.  The store is left alone; lastCall holds the input    *)
(* and what the function returned or threw.                                *)
(***************************************************************************)
WallDays == {0, 1, 20}
WallHours == {0, 5, 9, 18, 23, 24, 25}
WallMinutes == {0, 29, 30, 59, 60}

\* the renderings of the seconds of a combined string at a whole minute
SecondsTexts == { << >>, <<":", "0", "0">> }

NormalizeTime(day, hour, minute, sep, seconds) ==
  /\ lastCall' = [ op |-> "normalize", day |-> day, hour |-> hour, minute |-> minute,
                   text |-> CombinedText(day, sep, ClockOf(hour, minute) \o seconds),
                   combined |->
                     AppointmentMoment(
                       CombinedText(day, sep, ClockOf(hour, minute) \o seconds)),
                   separate |->
                     AppointmentMoment(SeparateText(day, ClockOf(hour, minute))) ]
  /\ UNCHANGED <<now, StoreVars, inflight>>

DurationNumbers == { << >>, <<"0">>, <<"5">>, <<"3","0">>, <<"1",".","5">>, <<"5",".">> }
DurationSpaces == { << >>, <<" ">>, <<" ", " ">> }
DurationUnits ==
  UnitTokens \cup { << >>, <<"H","o","u","r">>, <<"M","I","N","S">>, <<"h","r","s">>,
                    <<"d","a","y","s">>, <<"s","e","c">> }

DurationStrings ==
  { n \o w \o u : n \in DurationNumbers, w \in DurationSpaces, u \in DurationUnits }
  \cup { Services[sv].duration : sv \in DOMAIN Services }

ParseDuration(duration) ==
  /\ lastCall' = [ op |-> "parseDuration", duration |-> duration,
                   result |-> parseDurationToMinutes(duration) ]
  /\ UNCHANGED <<now, StoreVars, inflight>>

\* the same date and time given to the update handler, which derives the
\* start it classifies against, and to the scheduler in the separate shape
RederiveStart(day, hour, minute) ==
  /\ lastCall' = [ op |-> "rederive", day |-> day, hour |-> hour, minute |-> minute,
                   update |-> UpdateDateTime(day, hour * 60 + minute),
                   schedule |->
                     AppointmentMoment(SeparateText(day, ClockOf(hour, minute))).instant ]
  /\ UNCHANGED <<now, StoreVars, inflight>>

NextPure ==
  \/ \E day \in WallDays, hour \in WallHours \cap 0..23, minute \in WallMinutes \cap 0..59 :
        RederiveStart(day, hour, minute)
  \/ \E day \in WallDays, hour \in WallHours, minute \in WallMinutes,
        sep \in {"T", " "}, seconds \in SecondsTexts :
        NormalizeTime(day, hour, minute, sep, seconds)
  \/ \E duration \in DurationStrings : ParseDuration(duration)

SpecPure == Init /\ [][NextPure]_vars

\* C18: for every wall-clock date and time, the scheduler derives the same
\* UTC start instant from the combined date-time string as from the separate
\* date and time strings, and that instant is the wall-clock time read in
\* Asia/Kolkata; a value that is no time of day fails in both shapes.
C18_TimeShapeEquivalence ==
  lastCall.op = "normalize"
    => /\ lastCall.combined = lastCall.separate
       /\ IF lastCall.hour < 24 /\ lastCall.minute < 60
          THEN /\ lastCall.combined.error = "none"
               /\ lastCall.combined.instant =
                    lastCall.day * MsPerDay
                    + (lastCall.hour * 60 + lastCall.minute) * MsPerMinute - IstOffsetMs
          ELSE lastCall.hour > 24 \/ lastCall.minute > 59
                 => lastCall.combined.error = "InvalidAppointmentDateTime"

C18_Witness ==
  /\ lastCall.op = "normalize"
  /\ lastCall.day = 20 /\ lastCall.hour = 18 /\ lastCall.minute = 29
  /\ lastCall.text.appointmentDateTime[1].time = <<"1","8",":","2","9",":","0","0">>
  /\ lastCall.combined.error = "none"
  /\ lastCall.separate.instant = lastCall.combined.instant


\* the shape <number><unit>: a decimal number, optional blanks and a unit
\* token of letters
NumberAndUnit(s) ==
  /\ Len(DurationMatch(s).int) > 0
  /\ Len(DurationMatch(s).unit) > 0
  /\ \A i \in 1..Len(DurationMatch(s).unit) :
        /\ ~IsDigit(DurationMatch(s).unit[i])
        /\ ~IsSpace(DurationMatch(s).unit[i])
        /\ DurationMatch(s).unit[i] # "."

MinuteLike ==
  { <<"m","i","n">>, <<"m","i","n","s">>, <<"m","i","n","u","t","e">>,
    <<"m","i","n","u","t","e","s">> }

HourLike == { <<"h","o","u","r">>, <<"h","o","u","r","s">>, <<"h">> }

\* result is the number times factor
IsMinutes(result, value, factor) ==
  /\ result.error = "none"
  /\ result.huge = value.huge
  /\ result.num * value.den = value.num * factor * result.den

\* C19: for an input of the shape <number><unit> the Duration Resolver
\* returns the number when the unit is minute-like and the number times 60
\* when it is hour-like; with any other unit token it fails with
\* UnsupportedDurationUnit, and a string that does not have the shape fails
\* with InvalidDurationFormat.
C19_DurationResolver ==
  lastCall.op = "parseDuration"
    => LET m == DurationMatch(lastCall.duration)
       IN  IF ~NumberAndUnit(lastCall.duration)
           THEN lastCall.result.error = "InvalidDurationFormat"
           ELSE IF LowerCase(m.unit) \in MinuteLike
           THEN IsMinutes(lastCall.result, ParseFloat(m.int, m.frac), 1)
           ELSE IF LowerCase(m.unit) \in HourLike
           THEN IsMinutes(lastCall.result, ParseFloat(m.int, m.frac), 60)
           ELSE lastCall.result.error = "UnsupportedDurationUnit"

\* the same with the unit tokens outside the pattern left out
C19_ExceptUnitsOutsideThePattern ==
  (lastCall.op = "parseDuration"
     /\ (NumberAndUnit(lastCall.duration)
           => LowerCase(DurationMatch(lastCall.duration).unit) \in UnitTokens))
    => C19_DurationResolver


(***************************************************************************)
(* The sweep over several tenants with storage failures: appointments of   *)
(* both companies are scheduled, the clock advances, and each tick of the  *)
(* cron may have one call that rejects.                                    *)
(***************************************************************************)
MaxSweepAppointments == 2

SweepFaults ==
  {NoFault, [company |-> "none", step |-> "distinct"]}
  \cup { [company |-> c, step |-> SweepSteps[k]] :
           c \in Companies, k \in DOMAIN SweepSteps }

\* a tick of the cron in which the call named by fault rejects
StatusCronWithFault(order, fault) ==
  /\ inflight = << >>
  /\ \E r \in {SweepTick(DB, order, now, fault)} :
         /\ Commit(r.db)
         /\ lastCall' = [ op |-> "sweep", error |-> r.error, appointment |-> 0,
                          patch |-> NoPatch, fault |-> fault.step,
                          company |-> fault.company, order |-> order ]
  /\ UNCHANGED <<now, inflight>>

\* the instants at which the window of a sample request begins and ends
SweepInstants ==
  UNION { { AppointmentMoment(Separate(d, SampleMinute)).instant,
            AppointmentMoment(Separate(d, SampleMinute)).instant + 30 * MsPerMinute } :
            d \in ScheduleDays }

NextSweep ==
  \/ ClockAdvance /\ now' \in SweepInstants
  \/ \E req \in LifecycleRequests :
        /\ Len(appointments) < MaxSweepAppointments
        /\ ScheduleAppointment(req, "none")
  \/ \E id \in 1..MaxSweepAppointments, c \in Companies : DeleteAppointment(id, c)
  \/ \E order \in Orders(DistinctCompanies(DB)), fault \in SweepFaults :
        StatusCronWithFault(order, fault)

SpecSweep == Init /\ [][NextSweep]_vars

\* C20: when the status update of one tenant fails during a sweep tick, the
\* tick raises no error and the appointments of every other tenant of the
\* tick are updated as by a status update that does not fail.
C20_SweepFailureIsolation ==
  [][\A order \in Orders(DistinctCompanies(DB)), fault \in SweepFaults :
        (fault.company \in Companies /\ StatusCronWithFault(order, fault))
          => /\ lastCall'.error = "none"
             /\ Len(appointments') = Len(appointments)
             /\ \A i \in 1..Len(appointments) :
                   appointments[i].companyId # fault.company
                     => appointments'[i] =
                          StatusUpdates(DB, appointments[i].companyId, now, "none")
                            .appointments[i]]_vars

\* the find of the first tenant of the tick has failed and its appointment is
\* still Upcoming inside its window, while the appointment of the tenant
\* after it has been marked Ongoing
C20_Witness ==
  /\ lastCall.op = "sweep" /\ lastCall.fault = "find" /\ lastCall.error = "none"
  /\ Len(lastCall.order) = 2 /\ lastCall.order[1] = lastCall.company
  /\ \E i, j \in Stored :
        /\ appointments[i].companyId = lastCall.order[1]
        /\ appointments[i].appointmentStatus = UPCOMING
        /\ appointments[i].date <= now /\ now < appointments[i].expiresAt
        /\ appointments[j].companyId = lastCall.order[2]
        /\ appointments[j].appointmentStatus = ONGOING


\* C21: a sweep tick leaves every trashed appointment as it is, whatever its
\* start and expiry are relative to now.
C21_SweepSkipsTrashed ==
  [][\A order \in Orders(DistinctCompanies(DB)), fault \in SweepFaults :
        StatusCronWithFault(order, fault)
          => \A i \in Stored :
                appointments[i].isTrashed => appointments'[i] = appointments[i]]_vars

\* a tick without failure has just run inside the window of a trashed
\* appointment that is still Upcoming, and has marked a live appointment of
\* the same company Ongoing
C21_Witness ==
  /\ lastCall.op = "sweep" /\ lastCall.fault = "none"
  /\ \E i, j \in Stored :
        /\ appointments[i].isTrashed
        /\ appointments[i].appointmentStatus = UPCOMING
        /\ appointments[i].date <= now /\ now < appointments[i].expiresAt
        /\ appointments[j].isTrashed = FALSE
        /\ appointments[j].companyId = appointments[i].companyId
        /\ appointments[j].appointmentStatus = ONGOING


(***************************************************************************)
(* Properties of the sweep's three bulk updates.                           *)
(***************************************************************************)
\* one of the three bulk updates, by the status it sets
BulkUpdate(db, companyId, nowUTC, status) ==
  IF status = COMPLETED THEN MarkCompleted(db, companyId, nowUTC)
  ELSE IF status = ONGOING THEN MarkOngoing(db, companyId, nowUTC)
  ELSE MarkUpcoming(db, companyId, nowUTC)

\* the three bulk updates executed in the given order
InOrder(db, companyId, nowUTC, order) ==
  BulkUpdate(BulkUpdate(BulkUpdate(db, companyId, nowUTC, order[1]),
                        companyId, nowUTC, order[2]),
             companyId, nowUTC, order[3])

SixOrders == Orders({COMPLETED, ONGOING, UPCOMING})

\* C22: in every reachable state of the store and at every instant now, the
\* three bulk updates of the sweep give every appointment the same final
\* status in each of their six orders.
C22_SweepOrderIndependence ==
  \A c \in Companies, order \in SixOrders :
     InOrder(DB, c, now, order).appointments
       = updateAppointmentStatuses(DB, c, now, NoFault).db.appointments

\* the same for the stores in which every appointment starts before it expires
C22_OrderIndependenceOfProperWindows ==
  (\A i \in Stored : appointments[i].date < appointments[i].expiresAt)
    => C22_SweepOrderIndependence


\* the status of appointment a is the one its start and expiry determine
\* at nowUTC
CorrectFor(a, nowUTC) ==
  /\ a.expiresAt <= nowUTC => a.appointmentStatus = COMPLETED
  /\ (a.date <= nowUTC /\ nowUTC < a.expiresAt) => a.appointmentStatus = ONGOING
  /\ a.date > nowUTC => a.appointmentStatus = UPCOMING

\* the store after one more tick at the same instant
SecondTick ==
  SweepTick(DB, CHOOSE order \in Orders(DistinctCompanies(DB)) : TRUE, now, NoFault).db

\* the store after a tick at the instant now over the store db
TickOver(db) ==
  SweepTick(db, CHOOSE order \in Orders(DistinctCompanies(db)) : TRUE, now, NoFault).db

\* C23: a second sweep tick with the same now leaves every appointment as
\* the first tick left it, and a tick does not change an appointment whose
\* status is already the one determined by now.  Stated of a tick over every
\* reachable store.
C23_SweepIdempotence ==
  /\ TickOver(TickOver(DB)).appointments = TickOver(DB).appointments
  /\ \A i \in Stored :
        CorrectFor(appointments[i], now)
          => TickOver(DB).appointments[i] = appointments[i]

\* a tick has just run over a live appointment whose stored expiry is past
\* while its stored start is still ahead, and has left it Upcoming
C23_Witness ==
  /\ lastCall.op = "sweep"
  /\ \E i \in Stored :
        /\ appointments[i].isTrashed = FALSE
        /\ appointments[i].expiresAt <= now /\ now < appointments[i].date
        /\ appointments[i].appointmentStatus = UPCOMING

\* a tick has just run over a live Completed appointment whose window is past
C23_CorrectStatusWitness ==
  /\ lastCall.op = "sweep"
  /\ \E i \in Stored :
        /\ appointments[i].isTrashed = FALSE
        /\ appointments[i].date < appointments[i].expiresAt
        /\ appointments[i].expiresAt <= now
        /\ appointments[i].appointmentStatus = COMPLETED


(***************************************************************************)
(* Properties of the order of the scheduler's storage calls.               *)
(***************************************************************************)
\* C24: within one invocation the tenant-scoped appointment code is drawn
\* from the counter only after the Appointment document of the invocation
\* exists in the store.
C24_CodeAfterDocument ==
  \A i \in 1..Len(inflight) :
     Present(inflight[i].aptId) => inflight[i]._id \in Stored


(***************************************************************************)
(* The update handler and the sweep as interleaved steps.  Each await of   *)
(* updateAppointmentService and of the cron callback is a step of its own, *)
(* and the timer can fire while an earlier callback is still running.      *)
(* inflight holds the running operations: an update with the patch it will *)
(* write, a tick with the companies still to sweep and the nowUTC that     *)
(* updateAppointmentStatuses read for the company at hand.                 *)
(***************************************************************************)
MaxRunning == 2

RacePatches == { p \in Patches : p.appointmentStatus = <<CANCELLED>> }

Running(kind) == { k \in 1..Len(inflight) : inflight[k].kind = kind }

Step(k, locals) ==
  /\ inflight' = [inflight EXCEPT ![k] = locals]
  /\ UNCHANGED <<now, lastCall>>

\* the clock moves while operations are running
RaceClock ==
  /\ \E t \in SweepInstants : t > now /\ now' = t
  /\ UNCHANGED <<StoreVars, lastCall, inflight>>

\* updateAppointmentService up to its first write: the findOne, the
\* cancellation guard and the status of a new date and time
UpdateFind(id, updateData, companyId) ==
  /\ Len(inflight) < MaxRunning
  /\ Len(notifications) < MaxNotifications
  /\ IF ~FindAppointment(DB, id, companyId)
     THEN /\ lastCall' = Call("update", "AppointmentNotFound", id, updateData, "none")
          /\ UNCHANGED inflight
     ELSE IF CancellationRejected(appointments[id], updateData)
     THEN /\ lastCall' = Call("update", "OnlyUpcomingAppointmentsCanBeCancelled",
                              id, updateData, "none")
          /\ UNCHANGED inflight
     ELSE /\ inflight' = Append(inflight,
                           [ kind |-> "update", pc |-> "findByIdAndUpdate", id |-> id,
                             companyId |-> companyId, patch |-> updateData,
                             updateData |-> HandleStatus(updateData, now) ])
          /\ UNCHANGED lastCall
  /\ UNCHANGED <<now, StoreVars>>

\* await Appointment.findByIdAndUpdate(id, updateData, {runValidators: true})
UpdateWrite(k) ==
  /\ inflight[k].kind = "update" /\ inflight[k].pc = "findByIdAndUpdate"
  /\ Commit(FindByIdAndUpdate(DB, inflight[k].id, inflight[k].updateData))
  /\ Step(k, [inflight[k] EXCEPT !.pc = "saveNotification"])

\* the second findOne and await saveNotification(notification); the handler
\* returns
UpdateNotify(k) ==
  /\ inflight[k].kind = "update" /\ inflight[k].pc = "saveNotification"
  /\ Commit(saveNotification(DB, UpdatedNotification(DB, inflight[k].id,
                                                     inflight[k].companyId),
                             FALSE).db)
  /\ inflight' = [inflight EXCEPT ![k].pc = "done"]
  /\ lastCall' = Call("update", "none", inflight[k].id, inflight[k].patch, "none")
  /\ UNCHANGED now

\* the timer fires and the callback awaits Appointment.distinct
TickFire ==
  /\ Len(inflight) < MaxRunning
  /\ inflight' = Append(inflight, [ kind |-> "sweep", pc |-> "distinct",
                                    order |-> << >>, nowUTC |-> now ])
  /\ UNCHANGED <<now, StoreVars, lastCall>>

\* the tick goes on to the next company, where updateAppointmentStatuses
\* reads nowUTC and awaits its find, or ends
TickNext(k, order) ==
  IF order = << >>
  THEN /\ inflight' = [inflight EXCEPT ![k].pc = "done", ![k].order = << >>]
       /\ lastCall' = Call("sweep", "none", 0, NoPatch, "none")
       /\ UNCHANGED now
  ELSE Step(k, [inflight[k] EXCEPT !.pc = "find", !.order = order, !.nowUTC = now])

\* distinct resolves
TickDistinct(k) ==
  /\ inflight[k].kind = "sweep" /\ inflight[k].pc = "distinct"
  /\ \E order \in Orders(DistinctCompanies(DB)) : TickNext(k, order)
  /\ UNCHANGED StoreVars

\* the find of updateAppointmentStatuses resolves
TickFind(k) ==
  /\ inflight[k].kind = "sweep" /\ inflight[k].pc = "find"
  /\ Step(k, [inflight[k] EXCEPT !.pc = COMPLETED])
  /\ UNCHANGED StoreVars

\* one of the first two updateMany calls resolves
TickUpdateMany(k) ==
  /\ inflight[k].kind = "sweep" /\ inflight[k].pc \in {COMPLETED, ONGOING}
  /\ Commit(IF inflight[k].pc = COMPLETED
            THEN MarkCompleted(DB, Head(inflight[k].order), inflight[k].nowUTC)
            ELSE MarkOngoing(DB, Head(inflight[k].order), inflight[k].nowUTC))
  /\ Step(k, [inflight[k] EXCEPT !.pc = IF @ = COMPLETED THEN ONGOING ELSE UPCOMING])

\* the last updateMany resolves and the loop goes on
TickLastUpdateMany(k) ==
  /\ inflight[k].kind = "sweep" /\ inflight[k].pc = UPCOMING
  /\ Commit(MarkUpcoming(DB, Head(inflight[k].order), inflight[k].nowUTC))
  /\ TickNext(k, Tail(inflight[k].order))

\* the operations that have ended are forgotten once none is running
Retire ==
  /\ inflight # << >>
  /\ \A k \in 1..Len(inflight) : inflight[k].pc = "done"
  /\ inflight' = << >>
  /\ UNCHANGED <<now, StoreVars, lastCall>>

NextRace ==
  \/ RaceClock
  \/ \E req \in LifecycleRequests : LifecycleBound /\ ScheduleAppointment(req, "none")
  \/ \E id \in 1..MaxAppointments, p \in RacePatches, c \in Companies : UpdateFind(id, p, c)
  \/ \E k \in 1..Len(inflight) : UpdateWrite(k)
  \/ \E k \in 1..Len(inflight) : UpdateNotify(k)
  \/ TickFire
  \/ \E k \in 1..Len(inflight) : TickDistinct(k)
  \/ \E k \in 1..Len(inflight) : TickFind(k)
  \/ \E k \in 1..Len(inflight) : TickUpdateMany(k)
  \/ \E k \in 1..Len(inflight) : TickLastUpdateMany(k)
  \/ Retire

SpecRace == Init /\ [][NextRace]_vars

\* C25: under every interleaving of a cancellation with sweep ticks, the
\* status that the write of Cancelled replaces is Upcoming: no appointment
\* moves from Ongoing or Completed to Cancelled.
C25_CancelledOnlyFromUpcoming ==
  [][\A i \in Stored :
        appointments[i].appointmentStatus \in {ONGOING, COMPLETED}
          => appointments'[i].appointmentStatus # CANCELLED]_vars

\* the latest instant a tick that has ended read
LatestTick == CHOOSE t \in { inflight[k].nowUTC : k \in Running("sweep") } :
                \A k \in Running("sweep") : inflight[k].nowUTC <= t

\* C26: once two overlapping sweep ticks have both ended, every live,
\* non-Cancelled appointment with start < expiry has the status determined
\* by the now of the later tick.
C26_OverlappingTicksDoNotRegress ==
  ( /\ Cardinality(Running("sweep")) = 2
    /\ \A k \in Running("sweep") : inflight[k].pc = "done" )
    => \A i \in Stored :
          ( /\ appointments[i].isTrashed = FALSE
            /\ appointments[i].appointmentStatus # CANCELLED
            /\ appointments[i].date < appointments[i].expiresAt )
            => appointments[i].appointmentStatus
                 = BoundaryStatus(LatestTick, appointments[i].date,
                                  appointments[i].expiresAt)


(***************************************************************************)
(* Properties of the transaction counter and of the Payment codes.         *)
(***************************************************************************)
PaymentsOf(docs, companyId) ==
  { j \in 1..Len(docs) : docs[j].companyId = companyId }

TxnCodes(numbers) == { FormatCode("#TXN", n, TXN_PAD) : n \in numbers }

\* C27: an invocation advances the transaction counter of the tenant by one
\* when it creates a Payment and not at all when it creates none, and the
\* Payments of a tenant carry the consecutive codes 1..k.
C27_TransactionCounterOncePerPayment ==
  [][\A c \in Companies :
        /\ Found(txnTracker'[c]) - Found(txnTracker[c])
             = Cardinality(PaymentsOf(payments', c)) - Cardinality(PaymentsOf(payments, c))
        /\ { payments'[j].transactionId : j \in PaymentsOf(payments', c) }
             = TxnCodes(1..Cardinality(PaymentsOf(payments', c)))]_vars

\* the counter never advances by less than the Payments created
C27_CounterCoversPayments ==
  \A c \in Companies : Found(txnTracker[c]) >= Cardinality(PaymentsOf(payments, c))


\* C28: the Payment write of an invocation does not depend on what other
\* tenants have scheduled: once its Appointment is saved for a service of
\* price > 0 and no storage call is made to fail, its Payment is saved.
C28_PaymentIndependentOfOtherTenants ==
  [][( /\ lastCall'.op = "schedule"
       /\ lastCall'.fault = "none"
       /\ Len(appointments') = Len(appointments) + 1
       /\ Services[appointments'[Len(appointments')].service].price > 0 )
     => /\ Len(payments') = Len(payments) + 1
        /\ payments'[Len(payments')].companyId
             = appointments'[Len(appointments')].companyId]_vars

\* no two stored Payments, of one tenant or of two, carry the same code
C28_CodesUniqueAcrossTenants ==
  \A i, j \in 1..Len(payments) :
     payments[i].transactionId = payments[j].transactionId => i = j


(***************************************************************************)
(* Properties that relate the update handler to the sweep and to the       *)
(* scheduler.                                                              *)
(***************************************************************************)
DateTimePatches == { p \in Patches : Present(p.date) /\ Present(p.time) }

\* C29: the status written by a successful update that supplies a new date
\* and time is left unchanged by a sweep tick evaluated at the same instant
\* over the stored start and expiry of the appointment.
C29_UpdatedStatusStableUnderSweep ==
  [][\A id \in Stored, c \in Companies, p \in DateTimePatches :
        ( /\ UpdateAppointment(id, p, c, "none")
          /\ lastCall'.error = "none" )
        => SecondTick'.appointments[id].appointmentStatus
             = appointments'[id].appointmentStatus]_vars


\* C30: for the same date D and time T the start instant that the update
\* handler derives to re-classify the status equals the start instant the
\* scheduler derives from the separate date and time.
C30_UpdateAndScheduleAgreeOnStart ==
  lastCall.op = "rederive" => lastCall.update = lastCall.schedule

\* the two instants differ by the offset of Asia/Kolkata
C30_StartsDifferByZoneOffset ==
  lastCall.op = "rederive" => lastCall.update = lastCall.schedule + IstOffsetMs

====
